---- MODULE Spec2Model ----
(***************************************************************************)
(* The CI workflow "Machine Learning Unit Tests" (src/unnamed/part_000)    *)
(* and the tutorial notebook docs/tutorials/07_pegasos_qsvc.ipynb as state *)
(* machines.  Three granularities of the workflow are specified:           *)
(*   SpecRuns  - workflow runs started by events, grouped and cancelled    *)
(*               by the concurrency key;                                   *)
(*   SpecRun   - the jobs of one run, their needs and their artifacts;     *)
(*   SpecSteps - the steps of one job, executed one at a time;             *)
(*   SpecShell - the shell scripts of two steps.                           *)
(* SpecNotebook executes the notebook's cells top to bottom.               *)
(***************************************************************************)
EXTENDS Naturals, Integers, Sequences, FiniteSets, TLC

VARIABLES
    runs,       \* SpecRuns: the workflow runs created so far, oldest first
    clock,      \* SpecRuns: the time of day of the scheduler, <<hour, minute>>
    github,     \* SpecRun, SpecSteps: the github context of the run
    jobs,       \* SpecRun: job -> its status and conclusion
    artifacts,  \* SpecRun, SpecSteps: the run's artifacts, each a name and file names
    covLog,     \* SpecRun: the step results of the aggregation job
    job,        \* SpecSteps: the job being executed
    pc,         \* SpecSteps: the index of the job's next step
    log,        \* SpecSteps: the results of the steps so far
    fs,         \* SpecSteps: the files of the job's runner
    cancelled,  \* SpecSteps, SpecRun: the run has been cancelled
    nbPc,       \* SpecNotebook: <<cell, statement>> to execute next
    nbHalted,   \* SpecNotebook: a statement has raised; execution has stopped
    nbNames,    \* SpecNotebook: the names bound in the kernel
    clf,        \* SpecNotebook: the classifier pegasos_qsvc
    calls,      \* SpecNotebook: the calls made on the classifier, in order
    installed,  \* SpecShell: the installed qiskit-machine-learning, <<major, minor, patch>>
    version,    \* SpecShell: the shell variable version of 'Run stable tutorials'
    env         \* SpecShell: the variables exported by the tests' script

runsVars == <<runs, clock>>
runVars == <<jobs, covLog>>
stepsVars == <<job, pc, log, fs, cancelled>>
nbVars == <<nbPc, nbHalted, nbNames, clf, calls>>
shVars == <<installed, version, env>>
vars == <<runs, clock, github, jobs, artifacts, covLog, job, pc, log, fs, cancelled,
          nbPc, nbHalted, nbNames, clf, calls, installed, version, env>>

(***************************************************************************)
(* Text.  Texts that are matched by prefix or by a glob are sequences of   *)
(* one-character strings; Join gives the text as one string.               *)
(***************************************************************************)
RECURSIVE Join(_)
Join(t) == IF t = <<>> THEN "" ELSE Head(t) \o Join(Tail(t))

StartsWith(t, prefix) ==
    /\ Len(prefix) <= Len(t)
    /\ SubSeq(t, 1, Len(prefix)) = prefix

Empty == <<>>

T_main == <<"m", "a", "i", "n">>
T_stable == <<"s", "t", "a", "b", "l", "e">>
T_stable_1 == T_stable \o <<"/", "1">>
T_stablex == T_stable \o <<"x">>
T_dev == <<"d", "e", "v">>
T_fix == <<"f", "i", "x">>
T_v1 == <<"v", "1">>
T_refs_heads == <<"r", "e", "f", "s", "/", "h", "e", "a", "d", "s", "/">>
T_refs_tags == <<"r", "e", "f", "s", "/", "t", "a", "g", "s", "/">>
T_refs_pull == <<"r", "e", "f", "s", "/", "p", "u", "l", "l", "/">>
T_merge == <<"/", "m", "e", "r", "g", "e">>
T_repository == <<"qiskit-community/qiskit-machine-learning">>

(***************************************************************************)
(* on: (lines 15-26).  A branch filter is a set of glob patterns: '*'      *)
(* matches any run of characters but '/', '**' any run of characters.      *)
(***************************************************************************)
RECURSIVE GlobMatch(_, _)
GlobMatch(p, s) ==
    IF p = <<>> THEN s = <<>>
    ELSE IF Len(p) >= 2 /\ p[1] = "*" /\ p[2] = "*"
    THEN \E k \in 0..Len(s) :
            GlobMatch(SubSeq(p, 3, Len(p)), SubSeq(s, k + 1, Len(s)))
    ELSE IF p[1] = "*"
    THEN \E k \in 0..Len(s) :
            /\ \A i \in 1..k : s[i] # "/"
            /\ GlobMatch(Tail(p), SubSeq(s, k + 1, Len(s)))
    ELSE /\ s # <<>>
         /\ s[1] = p[1]
         /\ GlobMatch(Tail(p), Tail(s))

P_main == T_main
P_stable == T_stable \o <<"/", "*", "*">>

OnPushBranches == {P_main, P_stable}
OnPullRequestBranches == {P_main, P_stable}

\* cron: '0 1 * * *' -- minute 0 of hour 1, every day, month and weekday.
\* A field is a number, or any = TRUE for '*'.
OnScheduleCron ==
    [minute |-> [any |-> FALSE, val |-> 0],
     hour   |-> [any |-> FALSE, val |-> 1],
     dom    |-> [any |-> TRUE, val |-> 0],
     month  |-> [any |-> TRUE, val |-> 0],
     dow    |-> [any |-> TRUE, val |-> 0]]

CronField(f, v) == f.any \/ f.val = v

CronMatches(cron, t) ==
    /\ CronField(cron.hour, t[1])
    /\ CronField(cron.minute, t[2])

OnEvents == {"push", "pull_request", "schedule"}

(***************************************************************************)
(* Events of the repository.  branch is the branch (or tag) pushed, or the *)
(* base branch of the pull request; head the pull request's head branch.   *)
(***************************************************************************)
Branches == {T_main, T_stable_1, T_stable, T_stablex, T_dev}

NoTime == <<0, 0>>

Event(name, refType, branch, head, number, labels, time) ==
    [name |-> name, ref_type |-> refType, branch |-> branch, head |-> head,
     number |-> number, labels |-> labels, time |-> time]

PushEvents ==
    {Event("push", "branch", b, Empty, 0, {}, NoTime) : b \in Branches}
    \cup {Event("push", "tag", T_v1, Empty, 0, {}, NoTime),
          Event("push", "tag", T_main, Empty, 0, {}, NoTime)}

PullRequestEvents ==
    {Event("pull_request", "branch", T_main, T_fix, 2, {"run_slow"}, NoTime),
     Event("pull_request", "branch", T_stable_1, T_fix, 3, {}, NoTime),
     Event("pull_request", "branch", T_dev, T_fix, 4, {}, NoTime),
     Event("pull_request", "branch", T_stablex, T_fix, 5, {}, NoTime)}

Times == {<<0, 0>>, <<1, 0>>, <<1, 30>>}

ScheduleEvent(t) == Event("schedule", "branch", T_main, Empty, 0, {}, t)

OtherEvents ==
    {Event("workflow_dispatch", "branch", T_main, Empty, 0, {}, NoTime),
     Event("release", "tag", T_v1, Empty, 0, {}, NoTime)}

RepoEvents == PushEvents \cup PullRequestEvents \cup OtherEvents

\* The workflow is triggered by ev: the event is listed under on: and passes
\* the event's filter.  A push filtered by branches: alone ignores tags.
TriggersMutNoFilter(ev) == ev.name \in OnEvents

Triggers(ev) ==
    CASE ev.name = "push" ->
            /\ ev.ref_type = "branch"
            /\ \E p \in OnPushBranches : GlobMatch(p, ev.branch)
      [] ev.name = "pull_request" ->
            \E p \in OnPullRequestBranches : GlobMatch(p, ev.branch)
      [] ev.name = "schedule" -> CronMatches(OnScheduleCron, ev.time)
      [] OTHER -> FALSE

(***************************************************************************)
(* The github context of a run (the fields the workflow reads).            *)
(***************************************************************************)
Digit(n) == CASE n = 0 -> "0" [] n = 1 -> "1" [] n = 2 -> "2" [] n = 3 -> "3"
              [] n = 4 -> "4" [] n = 5 -> "5" [] n = 6 -> "6" [] n = 7 -> "7"
              [] n = 8 -> "8" [] n = 9 -> "9"

RECURSIVE Decimal(_)
Decimal(n) == IF n < 10 THEN <<Digit(n)>>
              ELSE Decimal(n \div 10) \o <<Digit(n % 10)>>

GithubRef(ev) ==
    CASE ev.name = "pull_request" ->
            T_refs_pull \o Decimal(ev.number) \o T_merge
      [] ev.ref_type = "tag" -> T_refs_tags \o ev.branch
      [] OTHER -> T_refs_heads \o ev.branch

WorkflowName == <<"Machine Learning Unit Tests">>

GithubContext(ev) ==
    [event_name |-> ev.name,
     repository |-> T_repository,
     workflow   |-> WorkflowName,
     ref        |-> GithubRef(ev),
     head_ref   |-> IF ev.name = "pull_request" THEN ev.head ELSE Empty,
     base_ref   |-> IF ev.name = "pull_request" THEN ev.branch ELSE Empty,
     labels     |-> ev.labels]

(***************************************************************************)
(* concurrency: (lines 28-30).                                             *)
(***************************************************************************)
ConcurrencyGroupMutNoRef(gh) ==
    Join(gh.repository \o <<"-">> \o <<"-">> \o gh.head_ref
         \o <<"-">> \o gh.workflow)

ConcurrencyGroup(gh) ==
    Join(gh.repository \o <<"-">> \o gh.ref \o <<"-">>
         \o gh.head_ref \o <<"-">> \o gh.workflow)

CancelInProgress == TRUE

(***************************************************************************)
(* SpecRuns: runs are created by triggering events.  A run is pending      *)
(* until no run of its concurrency group is in progress.  A new run        *)
(* cancels the pending run of its group, and requests the cancellation of  *)
(* the run of its group that is in progress: that run goes on until its    *)
(* jobs have ended, cancelled or not.                                      *)
(***************************************************************************)
MaxRuns == 3

\* cancelled_by: the run that cancelled this one, or requested its
\* cancellation; 0 when there is none.
Run(ev) ==
    [event |-> ev, github |-> GithubContext(ev),
     group |-> ConcurrencyGroup(GithubContext(ev)),
     status |-> "pending", conclusion |-> "none", cancelled_by |-> 0]

\* Run r when run `new', the `by'-th run, is created.
Superseded(r, new, by) ==
    IF r.group # new.group \/ r.status = "completed" THEN r
    ELSE IF r.status = "pending"
    THEN [r EXCEPT !.status = "completed", !.conclusion = "cancelled",
                   !.cancelled_by = by]
    ELSE IF CancelInProgress /\ r.cancelled_by = 0
    THEN [r EXCEPT !.cancelled_by = by]
    ELSE r

StartRun(ev) ==
    /\ Len(runs) < MaxRuns
    /\ Triggers(ev)
    /\ LET new == Run(ev)
           n == Len(runs) + 1
       IN runs' = [i \in 1..Len(runs) |-> Superseded(runs[i], new, n)]
                      \o <<new>>

OnRepoEvent ==
    /\ \E ev \in RepoEvents : StartRun(ev)
    /\ UNCHANGED clock

\* The scheduler looks at the clock; the clock then moves on.
OnClock ==
    /\ \E t \in Times :
          /\ clock' = t
          /\ \/ StartRun(ScheduleEvent(clock))
             \/ /\ ~Triggers(ScheduleEvent(clock))
                /\ UNCHANGED runs

\* A pending run starts when no run of its group is in progress.
BeginRun ==
    /\ \E i \in 1..Len(runs) :
          /\ runs[i].status = "pending"
          /\ \A k \in 1..Len(runs) :
                runs[k].group = runs[i].group => runs[k].status # "in_progress"
          /\ runs' = [runs EXCEPT ![i].status = "in_progress"]
    /\ UNCHANGED clock

\* The jobs of a run in progress have ended: by themselves, or cancelled
\* when the cancellation of the run was requested.
CompleteRun ==
    /\ \E i \in 1..Len(runs) :
          /\ runs[i].status = "in_progress"
          /\ \E c \in {"success", "failure"}
                      \cup (IF runs[i].cancelled_by # 0 THEN {"cancelled"} ELSE {}) :
                runs' = [runs EXCEPT ![i].status = "completed",
                                     ![i].conclusion = c]
    /\ UNCHANGED clock


(***************************************************************************)
(* YAML scalars and expression values.  A plain scalar that reads as a     *)
(* number is a number (3.10 is 3.1); a quoted scalar is a string.  A       *)
(* number is kept as its whole part and the digits of its fraction,        *)
(* trailing zeros dropped.                                                 *)
(***************************************************************************)
Num(whole, frac) == [type |-> "number", whole |-> whole, frac |-> frac, s |-> <<>>]
Str(chars) == [type |-> "string", whole |-> 0, frac |-> <<>>, s |-> chars]
NaN == [type |-> "nan", whole |-> 0, frac |-> <<>>, s |-> <<>>]

Digits == {"0", "1", "2", "3", "4", "5", "6", "7", "8", "9"}

DigitVal(c) == CHOOSE n \in 0..9 : Digit(n) = c

RECURSIVE StripZeros(_)
StripZeros(ds) ==
    IF ds # <<>> /\ ds[Len(ds)] = 0 THEN StripZeros(SubSeq(ds, 1, Len(ds) - 1))
    ELSE ds

RECURSIVE WholeVal(_)
WholeVal(cs) == IF cs = <<>> THEN 0
                ELSE WholeVal(SubSeq(cs, 1, Len(cs) - 1)) * 10 + DigitVal(cs[Len(cs)])

\* The number a text reads as: digits, one optional '.', digits.
ParseNumber(cs) ==
    LET dots == {i \in 1..Len(cs) : cs[i] = "."}
        dot == IF dots = {} THEN Len(cs) + 1 ELSE CHOOSE i \in dots : TRUE
    IN IF /\ cs # <<>>
          /\ Cardinality(dots) <= 1
          /\ \A i \in 1..Len(cs) : i \in dots \/ cs[i] \in Digits
          /\ dot > 1
       THEN Num(WholeVal(SubSeq(cs, 1, dot - 1)),
                StripZeros([i \in 1..(Len(cs) - dot) |-> DigitVal(cs[dot + i])]))
       ELSE NaN

YamlPlain(cs) == IF ParseNumber(cs).type = "number" THEN ParseNumber(cs) ELSE Str(cs)
YamlQuoted(cs) == Str(cs)

\* ${{ value }}: the text of a value.
Format(v) ==
    IF v.type = "string" THEN v.s
    ELSE Decimal(v.whole)
         \o (IF v.frac = <<>> THEN <<>>
             ELSE <<".">> \o [i \in 1..Len(v.frac) |-> Digit(v.frac[i])])

\* a == b in an expression: values of different types are compared as numbers.
ToNumber(v) == IF v.type = "string" THEN ParseNumber(v.s) ELSE v

ExprEq(a, b) ==
    IF a.type = b.type THEN a.type # "nan" /\ a = b
    ELSE /\ ToNumber(a).type = "number"
         /\ ToNumber(a) = ToNumber(b)

(***************************************************************************)
(* strategy.matrix of the four jobs (lines 35-38, 111-125, 183-187,        *)
(* 261-263).                                                               *)
(***************************************************************************)
V_ubuntu == YamlPlain(<<"ubuntu-latest">>)
V_macos == YamlPlain(<<"macos-latest">>)
V_windows == YamlPlain(<<"windows-latest">>)
V_3_9 == YamlPlain(<<"3", ".", "9">>)
V_3_10 == YamlQuoted(<<"3", ".", "1", "0">>)
V_3_11 == YamlPlain(<<"3", ".", "1", "1">>)
V_3_12 == YamlPlain(<<"3", ".", "1", "2">>)
V_3_13 == YamlPlain(<<"3", ".", "1", "3">>)

Combo(os, pv) == [os |-> os, python_version |-> pv]

ChecksMatrix ==
    [os |-> <<V_ubuntu>>, python_version |-> <<V_3_9>>, include |-> <<>>]

MachineLearningMatrixMutPlain310 ==
    [os |-> <<V_ubuntu>>,
     python_version |-> <<V_3_9, YamlPlain(<<"3", ".", "1", "0">>), V_3_11, V_3_12, V_3_13>>,
     include |-> <<Combo(V_macos, V_3_9), Combo(V_macos, V_3_13),
                   Combo(V_windows, V_3_9), Combo(V_windows, V_3_13)>>]

MachineLearningMatrix ==
    [os |-> <<V_ubuntu>>,
     python_version |-> <<V_3_9, V_3_10, V_3_11, V_3_12, V_3_13>>,
     include |-> <<Combo(V_macos, V_3_9), Combo(V_macos, V_3_13),
                   Combo(V_windows, V_3_9), Combo(V_windows, V_3_13)>>]

TutorialsMatrix ==
    [os |-> <<V_ubuntu>>, python_version |-> <<V_3_9, V_3_13>>, include |-> <<>>]

\* The aggregation job has no os axis; it runs on ubuntu-latest.
CoverageMatrix ==
    [os |-> <<V_ubuntu>>, python_version |-> <<V_3_9>>, include |-> <<>>]

\* The product of the axes, os the outer axis.
Product(m) ==
    [k \in 1..(Len(m.os) * Len(m.python_version)) |->
        Combo(m.os[((k - 1) \div Len(m.python_version)) + 1],
              m.python_version[((k - 1) % Len(m.python_version)) + 1])]

\* An include entry is merged into the combinations of the product whose
\* axis values it does not overwrite; when there is none it is a new
\* combination.  Every entry here sets both axes, so merging changes nothing.
RECURSIVE AddIncludes(_, _, _)
AddIncludes(base, added, incs) ==
    IF incs = <<>> THEN base \o added
    ELSE LET inc == Head(incs)
             fits == {k \in 1..Len(base) :
                          /\ ExprEq(base[k].os, inc.os)
                          /\ ExprEq(base[k].python_version, inc.python_version)}
         IN IF fits # {} THEN AddIncludes(base, added, Tail(incs))
            ELSE AddIncludes(base, Append(added, inc), Tail(incs))

ExpandMatrixMutProduct(m) ==
    Product([m EXCEPT !.os = m.os \o [i \in 1..Len(m.include) |-> m.include[i].os]])

ExpandMatrix(m) == AddIncludes(Product(m), <<>>, m.include)

JobIds == {"Checks", "MachineLearning", "Tutorials", "Deprecation_Messages_and_Coverage"}

MatrixOf(id) ==
    CASE id = "Checks" -> ChecksMatrix
      [] id = "MachineLearning" -> MachineLearningMatrix
      [] id = "Tutorials" -> TutorialsMatrix
      [] id = "Deprecation_Messages_and_Coverage" -> CoverageMatrix

\* The jobs of a run: a job id and the index of its matrix combination.
Expanded == [id \in JobIds |-> ExpandMatrix(MatrixOf(id))]
JobsOf(id) == {<<id, k>> : k \in 1..Len(Expanded[id])}
Jobs == UNION {JobsOf(id) : id \in JobIds}
MatrixAt(j) == Expanded[j[1]][j[2]]

NeedsMutNoTutorials(id) ==
    IF id = "Deprecation_Messages_and_Coverage"
    THEN {"Checks", "MachineLearning"} ELSE {}

NeedsMutNoMachineLearning(id) ==
    IF id = "Deprecation_Messages_and_Coverage"
    THEN {"Checks", "Tutorials"} ELSE {}

Needs(id) ==
    IF id = "Deprecation_Messages_and_Coverage"
    THEN {"Checks", "MachineLearning", "Tutorials"} ELSE {}

(***************************************************************************)
(* Steps.  A step has the status function of its if: ("success" when the   *)
(* condition names none), the atoms of the condition (a conjunction), and  *)
(* what it does: the files its command reads (it fails without them), the  *)
(* directories it cleans, the files it leaves when it succeeds, and for    *)
(* the artifact actions the artifact's name and path.                      *)
(***************************************************************************)
File(dir, name) == [dir |-> dir, name |-> name]

NoPath == File("", "")

StepDef(id, status, expr, uses) ==
    [id |-> id, status |-> status, expr |-> expr, uses |-> uses,
     or_true |-> FALSE, reads |-> {}, cleans |-> {}, makes |-> {}, partial |-> {},
     name |-> <<>>, path |-> NoPath]

Lit(text) == [kind |-> "lit", v |-> text]
MatrixRef(key) == [kind |-> "matrix", v |-> key]

NotStable == {"ref_not_stable", "base_ref_not_stable"}

D_artifacts == "docs/_build/html/artifacts"
D_data == "./ci-artifact-data"

\* tools/extract_deprecation.py -file out.txt -output ./ci-artifact-data/ml.dep
\* writes its output file whenever it exits successfully.
ExtractDeprecationOutput == {File(D_data, "ml.dep")}

\* .github/actions/run-tests leaves the output of the tests in out.txt.
RunTestsOutput == {File(".", "out.txt")}

ChecksSteps ==
    << StepDef("Print Concurrency Group", "success", {}, "run"),
       StepDef("checkout", "success", {}, "action"),
       StepDef("setup-python", "success", {}, "action"),
       StepDef("install-main-dependencies", "success", NotStable, "action"),
       StepDef("install-machine-learning", "success", {}, "action"),
       StepDef("Install Dependencies", "success", {}, "run"),
       StepDef("pip check", "not_cancelled", {}, "run"),
       StepDef("Copyright Check", "not_cancelled", {}, "run"),
       StepDef("make spell", "not_cancelled", {}, "run"),
       StepDef("Style Check", "not_cancelled", {}, "run"),
       [StepDef("Run make html", "not_cancelled", {}, "run") EXCEPT
           !.cleans = {D_artifacts},
           !.makes = {File(D_artifacts, "documentation.tar.gz")},
           !.partial = {File(D_artifacts, "documentation.tar.gz")}],
       [StepDef("Run upload documentation", "not_cancelled", {}, "upload") EXCEPT
           !.name = <<Lit("documentation")>>,
           !.path = File(D_artifacts, "documentation.tar.gz")],
       StepDef("make doctest", "not_cancelled", {}, "run") >>

DeprecationMessagesMutNotCancelled ==
    [StepDef("Deprecation Messages", "not_cancelled", {}, "run") EXCEPT
        !.reads = RunTestsOutput,
        !.makes = ExtractDeprecationOutput]

DeprecationMessages ==
    [StepDef("Deprecation Messages", "success", {}, "run") EXCEPT
        !.reads = RunTestsOutput,
        !.makes = ExtractDeprecationOutput]

MLCoverageCombineMutNoOs ==
    [StepDef("Coverage combine", "success", {"python_3_9"}, "run") EXCEPT
        !.makes = {File(D_data, "ml.dat")}]

\* Coverage combine of the MachineLearning job
MLCoverageCombine ==
    [StepDef("Coverage combine", "success", {"os_ubuntu", "python_3_9"}, "run") EXCEPT
        !.makes = {File(D_data, "ml.dat")}]

MachineLearningSteps ==
    << StepDef("checkout", "success", {}, "action"),
       StepDef("setup-python", "success", {}, "action"),
       StepDef("install-main-dependencies", "success", NotStable, "action"),
       StepDef("install-machine-learning", "success", {}, "action"),
       StepDef("make lint", "success", {}, "run"),
       StepDef("make mypy", "not_cancelled", {}, "run"),
       [StepDef("Machine Learning Unit Tests", "not_cancelled", {}, "action") EXCEPT
           !.makes = RunTestsOutput],
       DeprecationMessages,
       MLCoverageCombine,
       [StepDef("upload-artifact", "success", {}, "upload") EXCEPT
           !.name = <<MatrixRef("os"), Lit("-"), MatrixRef("python_version")>>,
           !.path = File(D_data, "*")],
       StepDef("Machine Learning Unit Tests without torch/sparse",
               "not_cancelled", {}, "run") >>

RunUploadStableTutorialsMutNotCancelled ==
    [StepDef("Run upload stable tutorials", "not_cancelled",
             {"python_3_9"} \cup NotStable, "upload") EXCEPT
        !.name = <<Lit("tutorials-stable"), MatrixRef("python_version")>>,
        !.path = File(D_artifacts, "tutorials.tar.gz")]

RunUploadStableTutorials ==
    [StepDef("Run upload stable tutorials", "success",
             {"python_3_9"} \cup NotStable, "upload") EXCEPT
        !.name = <<Lit("tutorials-stable"), MatrixRef("python_version")>>,
        !.path = File(D_artifacts, "tutorials.tar.gz")]

TutorialsSteps ==
    << StepDef("checkout", "success", {}, "action"),
       StepDef("setup-python", "success", {}, "action"),
       StepDef("install-main-dependencies", "success", NotStable, "action"),
       StepDef("install-machine-learning", "success", {}, "action"),
       StepDef("Install Dependencies", "success", {}, "run"),
       [StepDef("Run Machine Learning Tutorials", "success", {}, "run") EXCEPT
           !.makes = {File(D_artifacts, "tutorials.tar.gz")},
           !.partial = {File(D_artifacts, "tutorials.tar.gz")}],
       [StepDef("Run upload tutorials", "success", {}, "upload") EXCEPT
           !.name = <<Lit("tutorials"), MatrixRef("python_version")>>,
           !.path = File(D_artifacts, "tutorials.tar.gz")],
       [StepDef("Run stable tutorials", "success",
                {"python_3_9"} \cup NotStable, "run") EXCEPT
           !.cleans = {D_artifacts},
           !.makes = {File(D_artifacts, "tutorials.tar.gz")},
           !.partial = {File(D_artifacts, "tutorials.tar.gz")}],
       RunUploadStableTutorials >>

Download(name, dir) ==
    [StepDef("download " \o name, "success", {}, "download") EXCEPT
        !.name = <<Lit(name)>>, !.path = File(dir, "*")]

DownloadSteps ==
    << Download("ubuntu-latest-3.9", "/tmp/u39"),
       Download("ubuntu-latest-3.10", "/tmp/u310"),
       Download("ubuntu-latest-3.11", "/tmp/u311"),
       Download("ubuntu-latest-3.12", "/tmp/u312"),
       Download("ubuntu-latest-3.13", "/tmp/u313"),
       Download("macos-latest-3.9", "/tmp/m39"),
       Download("macos-latest-3.13", "/tmp/m313"),
       Download("windows-latest-3.9", "/tmp/w39"),
       Download("windows-latest-3.13", "/tmp/w313") >>

DepFiles ==
    {File(d, "ml.dep") : d \in {"/tmp/u39", "/tmp/u310", "/tmp/u311", "/tmp/u312",
                                "/tmp/u313", "/tmp/m39", "/tmp/m313", "/tmp/w39",
                                "/tmp/w313"}}

CombinedDeprecationMessagesMutFatal ==
    [StepDef("Combined Deprecation Messages", "success", {}, "run") EXCEPT
        !.reads = DepFiles]

CombinedDeprecationMessages ==
    [StepDef("Combined Deprecation Messages", "success", {}, "run") EXCEPT
        !.reads = DepFiles, !.or_true = TRUE]

CoverageSteps ==
    << StepDef("checkout", "success", {}, "action"),
       StepDef("setup-python", "success", {}, "action") >>
    \o DownloadSteps
    \o << StepDef("Install Dependencies", "success", {}, "run"),
          CombinedDeprecationMessages,
          [StepDef("Coverage combine", "success", {}, "run") EXCEPT
              !.reads = {File("/tmp/u39", "ml.dat")}],
          StepDef("Upload to Coveralls", "success", {}, "run") >>

StepsOf(id) ==
    CASE id = "Checks" -> ChecksSteps
      [] id = "MachineLearning" -> MachineLearningSteps
      [] id = "Tutorials" -> TutorialsSteps
      [] id = "Deprecation_Messages_and_Coverage" -> CoverageSteps

(***************************************************************************)
(* The conditions of the steps.                                            *)
(***************************************************************************)
T_refs_heads_stable == T_refs_heads \o T_stable
T_stable_slash == T_stable \o <<"/">>

Atom(a, gh, matrix) ==
    CASE a = "ref_not_stable" -> ~StartsWith(gh.ref, T_refs_heads_stable)
      [] a = "base_ref_not_stable" -> ~StartsWith(gh.base_ref, T_stable_slash)
      [] a = "os_ubuntu" -> ExprEq(matrix.os, V_ubuntu)
      [] a = "python_3_9" -> ExprEq(matrix.python_version, V_3_9)

\* A step is executed when its status function and its condition hold:
\* success() when no earlier step has failed and the run is not cancelled,
\* !cancelled() when the run is not cancelled.
StepRunsMutSuccessOnly(step, gh, matrix, failed, isCancelled) ==
    /\ ~failed /\ ~isCancelled
    /\ \A a \in step.expr : Atom(a, gh, matrix)

StepRuns(step, gh, matrix, failed, isCancelled) ==
    /\ CASE step.status = "success" -> ~failed /\ ~isCancelled
         [] step.status = "not_cancelled" -> ~isCancelled
    /\ \A a \in step.expr : Atom(a, gh, matrix)

ArtifactNameMutNoMatrix(step, matrix) ==
    Join([i \in 1..Len(step.name) |->
            IF step.name[i].kind = "lit" THEN step.name[i].v ELSE ""])

ArtifactName(step, matrix) ==
    Join([i \in 1..Len(step.name) |->
            IF step.name[i].kind = "lit" THEN step.name[i].v
            ELSE Join(Format(matrix[step.name[i].v]))])

Matching(files, path) ==
    {f \in files : f.dir = path.dir /\ (path.name = "*" \/ f.name = path.name)}

(***************************************************************************)
(* The execution of one step.  js is the state of the job's runner: the    *)
(* results of its steps so far and its files; store the run's artifacts.   *)
(* outcome is what the step's command does by itself: "ok", "fail" (it     *)
(* fails before it changes anything), "fail_late" (it fails after it has   *)
(* cleaned) or "fail_made" (tar exits non-zero after it has written the    *)
(* archive).                                                               *)
(***************************************************************************)
NoArtifacts == {}

Artifact(name, files, by) == [name |-> name, files |-> files, by |-> by]
Names(store) == {a.name : a \in store}
FilesOf(store, name) == UNION {a.files : a \in {b \in store : b.name = name}}

Failed(stepLog) == \E i \in 1..Len(stepLog) : stepLog[i].result = "failure"

Entry(step, result, exit) == [id |-> step.id, result |-> result, exit |-> exit]

\* The exit status of the step's command: "ok" or "error".
Exit(step, j, js, store, outcome) ==
    IF /\ outcome = "ok"
       /\ step.reads \subseteq js.fs
       /\ step.uses = "download" => ArtifactName(step, MatrixAt(j)) \in Names(store)
       /\ step.uses = "upload" =>
             \/ Matching(js.fs, step.path) = {}
             \/ ArtifactName(step, MatrixAt(j)) \notin Names(store)
    THEN "ok" ELSE "error"

\* cmd || true ends successfully whatever cmd did.
StepResult(step, exit) ==
    IF exit = "ok" \/ step.or_true THEN "success" ELSE "failure"

FilesAfter(step, j, js, store, outcome, exit) ==
    LET kept == IF outcome = "fail" THEN js.fs
                ELSE {f \in js.fs : f.dir \notin step.cleans}
    IN IF exit # "ok"
       THEN kept \cup (IF outcome = "fail_made" THEN step.partial ELSE {})
       ELSE IF step.uses = "download"
       THEN kept \cup {File(step.path.dir, n) : n \in FilesOf(store, ArtifactName(step, MatrixAt(j)))}
       ELSE kept \cup step.makes

\* upload-artifact: the files matching the path become the artifact; with no
\* file the action warns and uploads nothing.
StoreAfter(step, j, js, store, exit) ==
    LET name == ArtifactName(step, MatrixAt(j))
        files == {f.name : f \in Matching(js.fs, step.path)}
    IN IF step.uses = "upload" /\ exit = "ok" /\ files # {}
       THEN store \cup {Artifact(name, files, j)}
       ELSE store

ExecStep(step, gh, j, js, store, outcome, isCancelled) ==
    IF ~StepRuns(step, gh, MatrixAt(j), Failed(js.log), isCancelled)
    THEN [js |-> [js EXCEPT !.log = Append(@, Entry(step, "skipped", "none"))],
          store |-> store]
    ELSE LET exit == Exit(step, j, js, store, outcome)
         IN [js |-> [log |-> Append(js.log, Entry(step, StepResult(step, exit), exit)),
                     fs |-> FilesAfter(step, j, js, store, outcome, exit)],
             store |-> StoreAfter(step, j, js, store, exit)]

\* The conclusion of a job whose steps are over.
Conclusion(stepLog, isCancelled) ==
    IF isCancelled THEN "cancelled"
    ELSE IF Failed(stepLog) THEN "failure"
    ELSE "success"

Outcomes(step) ==
    {"ok", "fail"} \cup (IF step.cleans # {} THEN {"fail_late"} ELSE {})
                  \cup (IF step.partial # {} THEN {"fail_made"} ELSE {})

\* What a step has done when the run is cancelled while its command runs:
\* nothing yet, the cleaning, or everything but its end.
Effects(step) ==
    {"none", "done"} \cup (IF step.cleans # {} THEN {"cleaned"} ELSE {})

\* The step that is running when the run is cancelled ends cancelled, with
\* the effects it has had so far.
InterruptStep(step, j, js, store, effect) ==
    LET exit == Exit(step, j, js, store, "ok")
        full == effect = "done" /\ exit = "ok"
    IN [js |-> [log |-> Append(js.log, Entry(step, "cancelled", "none")),
                fs |-> IF effect = "none" THEN js.fs
                       ELSE IF full THEN FilesAfter(step, j, js, store, "ok", exit)
                       ELSE {f \in js.fs : f.dir \notin step.cleans}],
        store |-> IF full THEN StoreAfter(step, j, js, store, exit) ELSE store]

NewRunner == [log |-> <<>>, fs |-> {}]

\* The ways all the steps of job j can go from step k on: the final runner
\* states and artifacts, over the outcomes of the steps that are executed.
RECURSIVE RunFrom(_, _, _, _, _)
RunFrom(k, j, gh, js, store) ==
    IF k > Len(StepsOf(j[1])) THEN {[js |-> js, store |-> store]}
    ELSE UNION {RunFrom(k + 1, j, gh, r.js, r.store) :
                   r \in {ExecStep(StepsOf(j[1])[k], gh, j, js, store, o, FALSE) :
                              o \in Outcomes(StepsOf(j[1])[k])}}

\* What a job leaves: its conclusion, the artifacts, and (kept for the
\* aggregation job alone) the results of its steps.
Outcome(j, r) ==
    [conclusion |-> Conclusion(r.js.log, FALSE), store |-> r.store,
     log |-> IF Needs(j[1]) = {} THEN <<>> ELSE r.js.log]

RunJob(j, gh, store) == {Outcome(j, r) : r \in RunFrom(1, j, gh, NewRunner, store)}

\* The ways a step can go in a run that is cancelled before the job is
\* over.  Until the run is cancelled, the step is executed, or the
\* cancellation comes before it, or while it is running; once the run is
\* cancelled, the step is executed if its condition holds in a cancelled
\* run, and skipped otherwise.  c tells whether the run is cancelled when
\* the step is over.
CancelStep(step, gh, j, js, store, isCancelled) ==
    {[r |-> ExecStep(step, gh, j, js, store, o, c), c |-> c] :
        o \in Outcomes(step), c \in IF isCancelled THEN {TRUE} ELSE {FALSE, TRUE}}
    \cup (IF ~isCancelled /\ StepRuns(step, gh, MatrixAt(j), Failed(js.log), FALSE)
          THEN {[r |-> InterruptStep(step, j, js, store, e), c |-> TRUE] : e \in Effects(step)}
          ELSE {})

\* The ways all the steps of job j can go from step k on in a run that is
\* cancelled before the job is over.
RECURSIVE CancelFrom(_, _, _, _, _, _)
CancelFrom(k, j, gh, js, store, isCancelled) ==
    IF k > Len(StepsOf(j[1]))
    THEN IF isCancelled THEN {[js |-> js, store |-> store]} ELSE {}
    ELSE UNION {CancelFrom(k + 1, j, gh, x.r.js, x.r.store, x.c) :
                   x \in CancelStep(StepsOf(j[1])[k], gh, j, js, store, isCancelled)}

\* What a job leaves when it ends cancelled.
CancelJob(j, gh, store) ==
    {[Outcome(j, r) EXCEPT !.conclusion = Conclusion(r.js.log, TRUE)] :
        r \in CancelFrom(1, j, gh, NewRunner, store, FALSE)}

\* The contexts of the runs the repository's events start.
RunContexts ==
    {GithubContext(ev) : ev \in {e \in RepoEvents : Triggers(e)}}
    \cup {GithubContext(ScheduleEvent(t)) : t \in {u \in Times : Triggers(ScheduleEvent(u))}}

UpstreamJobs == {j \in Jobs : Needs(j[1]) = {}}

\* RunJob of the jobs without needs, with no artifact in the store.
UpstreamOutcomes ==
    [gh \in RunContexts |-> [j \in UpstreamJobs |-> RunJob(j, gh, NoArtifacts)]]

\* CancelJob of the jobs without needs, with no artifact in the store.
UpstreamCancels ==
    [gh \in RunContexts |-> [j \in UpstreamJobs |-> CancelJob(j, gh, NoArtifacts)]]

\* The executions of job j in `known`, computed with no artifact in the
\* store, are its executions with this store: the job has no needs, and so
\* reads the store only to see that the names it uploads are free, and they
\* are.
Known(j, known, store) ==
    /\ j \in UpstreamJobs
    /\ \A o \in known : Names(o.store) \cap Names(store) = {}

\* RunJob(j, gh, store).
JobOutcomes(j, gh, store) ==
    UNION {IF Known(j, known, store)
           THEN {[o EXCEPT !.store = store \cup o.store] : o \in known}
           ELSE RunJob(j, gh, store) :
              known \in {IF j \in UpstreamJobs THEN UpstreamOutcomes[gh][j] ELSE {}}}

\* CancelJob(j, gh, store).
JobCancels(j, gh, store) ==
    UNION {IF Known(j, known, store)
           THEN {[o EXCEPT !.store = store \cup o.store] : o \in known}
           ELSE CancelJob(j, gh, store) :
              known \in {IF j \in UpstreamJobs THEN UpstreamCancels[gh][j] ELSE {}}}

\* The ways job j can end: when its steps are over, or cancelled with the
\* run.
JobEnds(j, gh, store) == JobOutcomes(j, gh, store) \cup JobCancels(j, gh, store)

\* The artifacts of a run whose jobs js have all succeeded.
RECURSIVE UploadAll(_, _, _)
UploadAll(js, gh, store) ==
    IF js = {} THEN store
    ELSE LET j == CHOOSE x \in js : TRUE
             ok == {o \in JobOutcomes(j, gh, store) : o.conclusion = "success"}
         IN UploadAll(js \ {j}, gh, (CHOOSE o \in ok : TRUE).store)

(***************************************************************************)
(* SpecSteps: one job of a run, step by step.  The run may be cancelled    *)
(* between two steps or while a step is running.  The aggregation job      *)
(* finds the artifacts of the upstream jobs, which have succeeded when it  *)
(* starts.                                                                 *)
(***************************************************************************)
Step ==
    /\ pc <= Len(StepsOf(job[1]))
    /\ \E outcome \in Outcomes(StepsOf(job[1])[pc]) :
          LET r == ExecStep(StepsOf(job[1])[pc], github, job,
                            [log |-> log, fs |-> fs], artifacts, outcome, cancelled)
          IN /\ log' = r.js.log
             /\ fs' = r.js.fs
             /\ artifacts' = r.store
    /\ pc' = pc + 1
    /\ UNCHANGED <<job, github, cancelled, runsVars, runVars, nbVars, shVars>>

\* The run is cancelled between two steps.
Cancel ==
    /\ pc <= Len(StepsOf(job[1]))
    /\ ~cancelled
    /\ cancelled' = TRUE
    /\ UNCHANGED <<job, github, pc, log, fs, artifacts, runsVars, runVars, nbVars, shVars>>

\* The run is cancelled while a step is running.
Interrupt ==
    /\ pc <= Len(StepsOf(job[1]))
    /\ ~cancelled
    /\ StepRuns(StepsOf(job[1])[pc], github, MatrixAt(job), Failed(log), FALSE)
    /\ \E effect \in Effects(StepsOf(job[1])[pc]) :
          LET r == InterruptStep(StepsOf(job[1])[pc], job,
                                 [log |-> log, fs |-> fs], artifacts, effect)
          IN /\ log' = r.js.log
             /\ fs' = r.js.fs
             /\ artifacts' = r.store
    /\ cancelled' = TRUE
    /\ pc' = pc + 1
    /\ UNCHANGED <<job, github, runsVars, runVars, nbVars, shVars>>

RunsIdle == runs = <<>> /\ clock = NoTime
RunIdle == jobs = <<>> /\ covLog = <<>>
StepsIdle == job = <<>> /\ pc = 0 /\ log = <<>> /\ fs = {} /\ cancelled = FALSE
\* pegasos_qsvc before the cell that constructs it
NoClassifier == [state |-> "none", C |-> 0, num_steps |-> 0, step |-> 0, updates |-> 0]

ShIdle == installed = <<>> /\ version = "" /\ env = {}

NbIdle == nbPc = <<0, 0>> /\ nbHalted = FALSE /\ nbNames = {} /\ clf = NoClassifier /\ calls = <<>>

InitSteps ==
    /\ github \in RunContexts
    /\ job \in Jobs
    /\ pc = 1
    /\ log = <<>>
    /\ fs = {}
    /\ cancelled = FALSE
    /\ artifacts = IF job \in UpstreamJobs THEN NoArtifacts
                   ELSE UploadAll(UpstreamJobs, github, NoArtifacts)
    /\ RunsIdle /\ RunIdle /\ NbIdle /\ ShIdle

NextSteps == Step \/ Cancel \/ Interrupt

SpecSteps == InitSteps /\ [][NextSteps]_vars

(***************************************************************************)
(* SpecRuns.                                                               *)
(***************************************************************************)
InitRuns ==
    /\ runs = <<>>
    /\ clock \in Times
    /\ github = <<>> /\ artifacts = NoArtifacts
    /\ RunIdle /\ StepsIdle /\ NbIdle /\ ShIdle

NextRuns ==
    /\ OnRepoEvent \/ OnClock \/ BeginRun \/ CompleteRun
    /\ UNCHANGED <<github, artifacts, runVars, stepsVars, nbVars, shVars>>

SpecRuns == InitRuns /\ [][NextRuns]_vars

(***************************************************************************)
(* SpecRun: the jobs of one run.  The jobs are queued when the run is      *)
(* created; a job without needs is picked up as soon as one of MaxRunners  *)
(* runners is free, in any order, and the jobs in progress run side by     *)
(* side.  A job with needs waits until every job it needs has completed,   *)
(* and is skipped unless all of them succeeded.  Of a job's steps the run  *)
(* sees the uploads, one at a time while the job is in progress, and the   *)
(* end of the job; RunJob gives the ways the steps can go.  The run can be *)
(* cancelled while jobs are queued or in progress: the queued jobs are not *)
(* picked up any more, and each job in progress is ended by its own        *)
(* runner, while the other jobs go on.                                     *)
(***************************************************************************)
MaxFailedJobs == 1
MaxRunners == 2
MaxOvertakes == 1

Coverage == <<"Deprecation_Messages_and_Coverage", 1>>

NeededJobs(j) == UNION {JobsOf(id) : id \in Needs(j[1])}

JobState(status, conclusion) == [status |-> status, conclusion |-> conclusion]

FailedJobs == {j \in Jobs : jobs[j].conclusion = "failure"}

Running == {j \in Jobs : jobs[j].status = "in_progress"}

\* The order of the jobs in the file, and of the combinations of a matrix.
Before(a, b) ==
    LET JobPos(id) == CASE id = "Checks" -> 1
                        [] id = "MachineLearning" -> 2
                        [] id = "Tutorials" -> 3
                        [] OTHER -> 4
    IN JobPos(a[1]) < JobPos(b[1]) \/ (a[1] = b[1] /\ a[2] < b[2])

\* The jobs that have been picked up, j among them, while a job before them
\* in the file is still queued.
Overtakers(j) ==
    {x \in Jobs : /\ x = j \/ jobs[x].status # "queued"
                  /\ \E k \in Jobs \ {j} : jobs[k].status = "queued" /\ Before(k, x)}

\* A runner picks up queued job j, whose needs have completed.  A job with
\* needs is skipped when one of them has not succeeded or the run is
\* cancelled.
StartJob(j) ==
    /\ jobs[j].status = "queued"
    /\ \A n \in NeededJobs(j) : jobs[n].status = "completed"
    /\ IF (\A n \in NeededJobs(j) : jobs[n].conclusion = "success") /\ ~cancelled
       THEN /\ Cardinality(Running) < MaxRunners
            /\ Cardinality(Overtakers(j)) <= MaxOvertakes
            /\ jobs' = [jobs EXCEPT ![j] = JobState("in_progress", "none")]
       ELSE /\ NeededJobs(j) # {}
            /\ jobs' = [jobs EXCEPT ![j] = JobState("completed", "skipped")]
    /\ UNCHANGED <<github, artifacts, covLog, cancelled, job, pc, log, fs,
                   runsVars, nbVars, shVars>>

\* strategy.fail-fast: when a job of a matrix fails, the jobs of the same
\* matrix that are queued or in progress are cancelled.  It is true unless
\* the strategy sets it.
FailFastMutDefault(id) == TRUE

FailFast(id) ==
    CASE id = "MachineLearning" -> FALSE
      [] id = "Tutorials" -> FALSE
      [] OTHER -> TRUE

Finished(j, conclusion) ==
    IF conclusion = "failure" /\ FailFast(j[1])
    THEN [k \in Jobs |->
            IF k = j THEN JobState("completed", conclusion)
            ELSE IF k[1] = j[1] /\ jobs[k].status # "completed"
            THEN JobState("completed", "cancelled")
            ELSE jobs[k]]
    ELSE [jobs EXCEPT ![j] = JobState("completed", conclusion)]

\* The artifacts of the jobs other than j.
Others(j) == {a \in artifacts : a.by # j}

\* An upload step of job j ends, in the execution that ends as o: the
\* artifact is in the run while the job goes on with its next steps.
Upload(j, o) ==
    /\ o.conclusion # "cancelled"
    /\ artifacts \subseteq o.store
    /\ Cardinality(o.store \ artifacts) = 1
    /\ artifacts' = o.store
    /\ UNCHANGED <<github, jobs, covLog, cancelled, job, pc, log, fs,
                   runsVars, nbVars, shVars>>

\* The last step of job j ends, as o: the job has uploaded what its steps
\* upload.
FinishJob(j, o) ==
    /\ o.conclusion # "cancelled"
    /\ o.store = artifacts
    /\ o.conclusion = "failure" => Cardinality(FailedJobs) < MaxFailedJobs
    /\ jobs' = Finished(j, o.conclusion)
    /\ covLog' = IF j = Coverage THEN o.log ELSE covLog
    /\ UNCHANGED <<github, artifacts, cancelled, job, pc, log, fs,
                   runsVars, nbVars, shVars>>

\* The runner of job j, in progress in a cancelled run, ends the job, as o:
\* the step it was running is cancelled, and the job has uploaded what its
\* steps have uploaded until then.
EndCancelled(j, o) ==
    /\ cancelled
    /\ o.conclusion = "cancelled"
    /\ o.store = artifacts
    /\ jobs' = [jobs EXCEPT ![j] = JobState("completed", "cancelled")]
    /\ covLog' = IF j = Coverage THEN o.log ELSE covLog
    /\ UNCHANGED <<github, artifacts, cancelled, job, pc, log, fs,
                   runsVars, nbVars, shVars>>

\* A step of job j, in progress, ends.
EndStep(j) ==
    /\ jobs[j].status = "in_progress"
    /\ \E o \in JobEnds(j, github, Others(j)) :
          Upload(j, o) \/ FinishJob(j, o) \/ EndCancelled(j, o)

\* concurrency.cancel-in-progress: a newer run of the group cancels this
\* one.  The jobs without needs that are still queued are not run; the
\* cancellation is sent to the runner of each job in progress.
CancelRun ==
    /\ CancelInProgress
    /\ ~cancelled
    /\ \E j \in Jobs : jobs[j].status # "completed"
    /\ cancelled' = TRUE
    /\ jobs' = [j \in Jobs |->
                  IF jobs[j].status = "queued" /\ NeededJobs(j) = {}
                  THEN JobState("completed", "cancelled")
                  ELSE jobs[j]]
    /\ UNCHANGED <<github, artifacts, covLog, job, pc, log, fs,
                   runsVars, nbVars, shVars>>

\* Two contexts in which every job does the same: the jobs without needs
\* have the same outcomes, and the same steps of the aggregation job have
\* their conditions true.
RunsAlike(g, h) ==
    /\ \A ends \in {UpstreamOutcomes, UpstreamCancels} : ends[g] = ends[h]
    /\ \A k \in 1..Len(CoverageSteps) :
          (\A a \in CoverageSteps[k].expr : Atom(a, g, MatrixAt(Coverage)))
              <=> (\A a \in CoverageSteps[k].expr : Atom(a, h, MatrixAt(Coverage)))

\* One context of the runs for each way the jobs can go.
JobContexts == {CHOOSE h \in RunContexts : RunsAlike(g, h) : g \in RunContexts}

InitRun ==
    /\ github \in JobContexts
    /\ jobs = [j \in Jobs |-> JobState("queued", "none")]
    /\ artifacts = NoArtifacts
    /\ covLog = <<>>
    /\ RunsIdle /\ StepsIdle /\ NbIdle /\ ShIdle

JobStep == \E j \in Jobs : StartJob(j) \/ EndStep(j)

NextRun == CancelRun \/ JobStep

SpecRun == InitRun /\ [][NextRun]_vars

(***************************************************************************)
(* The notebook docs/tutorials/07_pegasos_qsvc.ipynb, its code cells       *)
(* executed top to bottom.  A statement binds names and reads names; a     *)
(* statement that reads an unbound name, or whose call raises, stops the   *)
(* execution.                                                              *)
(***************************************************************************)
tau == 100
C == 1000

Stmt(op, binds, reads) == [op |-> op, binds |-> binds, reads |-> reads]

ConstructArgsMutSwapped == [C |-> tau, num_steps |-> C]

\* PegasosQSVC(quantum_kernel=qkernel, C=C, num_steps=tau)
ConstructArgs == [C |-> C, num_steps |-> tau]

S_import == Stmt("other", {"PegasosQSVC"}, {})
S_construct == Stmt("construct", {"pegasos_qsvc"}, {"PegasosQSVC", "qkernel", "C", "tau"})
S_fit == Stmt("fit", {}, {"pegasos_qsvc", "train_features", "train_labels"})
S_score == Stmt("score", {"pegasos_score"}, {"pegasos_qsvc", "test_features", "test_labels"})
S_print == Stmt("other", {}, {"pegasos_score"})

TrainCellMutScoreFirst == <<S_import, S_construct, S_score, S_fit, S_print>>

\* cell representative-thumb
TrainCell == <<S_import, S_construct, S_fit, S_score, S_print>>

Cells ==
    << \* impressed-laser
       <<Stmt("other", {"make_blobs"}, {}),
         Stmt("other", {"features", "labels"}, {"make_blobs"})>>,
       \* adolescent-composer
       <<Stmt("other", {"np"}, {}),
         Stmt("other", {"train_test_split"}, {}),
         Stmt("other", {"MinMaxScaler"}, {}),
         Stmt("other", {"features"}, {"MinMaxScaler", "np", "features"}),
         Stmt("other", {"train_features", "test_features", "train_labels", "test_labels"},
              {"train_test_split", "features", "labels"})>>,
       \* dying-dispatch
       <<Stmt("other", {"num_qubits"}, {}),
         Stmt("other", {"tau"}, {}),
         Stmt("other", {"C"}, {})>>,
       \* automated-allergy
       <<Stmt("other", {"ZFeatureMap"}, {}),
         Stmt("other", {"algorithm_globals"}, {}),
         Stmt("other", {"FidelityQuantumKernel"}, {}),
         Stmt("other", {"ComputeUncompute"}, {}),
         Stmt("other", {"Sampler"}, {}),
         Stmt("other", {"sampler"}, {"Sampler"}),
         Stmt("other", {"fidelity"}, {"ComputeUncompute", "sampler"}),
         Stmt("other", {}, {"algorithm_globals"}),
         Stmt("other", {"feature_map"}, {"ZFeatureMap", "num_qubits"}),
         Stmt("other", {"qkernel"}, {"FidelityQuantumKernel", "fidelity", "feature_map"})>>,
       TrainCell,
       \* judicial-pottery
       <<Stmt("other", {"grid_step"}, {}),
         Stmt("other", {"margin"}, {}),
         Stmt("other", {"grid_x", "grid_y"}, {"np", "margin", "grid_step"})>>,
       \* competitive-outdoors
       <<Stmt("other", {"meshgrid_features"}, {"np", "grid_x", "grid_y"}),
         Stmt("predict", {"meshgrid_colors"}, {"pegasos_qsvc", "meshgrid_features"})>>,
       \* monetary-knife
       <<Stmt("other", {"plt"}, {}),
         Stmt("other", {}, {"plt"}),
         Stmt("other", {"meshgrid_colors"}, {"meshgrid_colors", "grid_x"}),
         Stmt("other", {}, {"plt", "grid_x", "grid_y", "meshgrid_colors"}),
         Stmt("other", {}, {"plt", "train_features", "train_labels"}),
         Stmt("other", {}, {"plt", "train_features", "train_labels"}),
         Stmt("other", {}, {"plt", "test_features", "test_labels"}),
         Stmt("other", {}, {"plt", "test_features", "test_labels"}),
         Stmt("other", {}, {"plt"}),
         Stmt("other", {}, {"plt"}),
         Stmt("other", {}, {"plt"})>>,
       \* imperial-promise
       <<Stmt("other", {"tutorial_magics"}, {}),
         Stmt("other", {}, {"tutorial_magics"}),
         Stmt("other", {}, {"tutorial_magics"})>> >>

NbDone == nbPc[1] > Len(Cells)

Current == Cells[nbPc[1]][nbPc[2]]

After(pos) ==
    IF pos[2] < Len(Cells[pos[1]]) THEN <<pos[1], pos[2] + 1>> ELSE <<pos[1] + 1, 1>>

NewClassifier(args) ==
    [state |-> "constructed", C |-> args.C, num_steps |-> args.num_steps,
     step |-> 0, updates |-> 0]

Ready == ~nbHalted /\ ~NbDone /\ clf.state # "fitting"

\* A statement that reads an unbound name raises NameError; any statement
\* may raise for reasons of its own.
Raise ==
    /\ Ready
    /\ nbHalted' = TRUE
    /\ calls' = IF Current.reads \subseteq nbNames /\ Current.op # "other"
                THEN Append(calls, Current.op) ELSE calls
    /\ UNCHANGED <<nbPc, nbNames, clf>>

Execute ==
    /\ Ready
    /\ Current.reads \subseteq nbNames
    /\ Current.op \in {"other", "construct"}
    /\ clf' = IF Current.op = "construct" THEN NewClassifier(ConstructArgs) ELSE clf
    /\ calls' = IF Current.op = "construct" THEN Append(calls, "construct") ELSE calls
    /\ nbNames' = nbNames \cup Current.binds
    /\ nbPc' = After(nbPc)
    /\ UNCHANGED nbHalted

\* PegasosQSVC.predict, which score calls, raises on a classifier that has
\* not been fitted.
CanPredict(c) == c.state = "fitted"

Predict ==
    /\ Ready
    /\ Current.reads \subseteq nbNames
    /\ Current.op \in {"score", "predict"}
    /\ calls' = Append(calls, Current.op)
    /\ IF CanPredict(clf)
       THEN /\ nbNames' = nbNames \cup Current.binds
            /\ nbPc' = After(nbPc)
            /\ UNCHANGED nbHalted
       ELSE /\ nbHalted' = TRUE
            /\ UNCHANGED <<nbNames, nbPc>>
    /\ UNCHANGED clf

(***************************************************************************)
(* PegasosQSVC.fit: the loop `for step in range(1, num_steps + 1)`.  Each  *)
(* step draws a sample and adds it to the support when its margin is       *)
(* violated, which depends on the data, on the kernel and on C; the loop   *)
(* has no other exit.                                                      *)
(***************************************************************************)
FitBegin(c) == [c EXCEPT !.state = "fitting", !.step = 0, !.updates = 0]

FitMore(c) == c.step < c.num_steps

FitIterate(c, violated) ==
    [c EXCEPT !.step = @ + 1, !.updates = IF violated THEN @ + 1 ELSE @]

FitEnd(c) == [c EXCEPT !.state = "fitted"]

FitCall ==
    /\ Ready
    /\ Current.reads \subseteq nbNames
    /\ Current.op = "fit"
    /\ clf' = FitBegin(clf)
    /\ calls' = Append(calls, "fit")
    /\ UNCHANGED <<nbPc, nbHalted, nbNames>>

FitStep ==
    /\ ~nbHalted /\ clf.state = "fitting"
    /\ FitMore(clf)
    /\ \E violated \in BOOLEAN : clf' = FitIterate(clf, violated)
    /\ UNCHANGED <<nbPc, nbHalted, nbNames, calls>>

FitReturn ==
    /\ ~nbHalted /\ clf.state = "fitting"
    /\ ~FitMore(clf)
    /\ clf' = FitEnd(clf)
    /\ calls' = Append(calls, "fit_return")
    /\ nbNames' = nbNames \cup Current.binds
    /\ nbPc' = After(nbPc)
    /\ UNCHANGED nbHalted

InitNotebook ==
    /\ nbPc = <<1, 1>>
    /\ nbHalted = FALSE
    /\ nbNames = {}
    /\ clf = NoClassifier
    /\ calls = <<>>
    /\ github = <<>> /\ artifacts = NoArtifacts
    /\ RunsIdle /\ RunIdle /\ StepsIdle /\ ShIdle

NextNotebook ==
    /\ Raise \/ Execute \/ Predict \/ FitCall \/ FitStep \/ FitReturn
    /\ UNCHANGED <<github, artifacts, runsVars, runVars, stepsVars, shVars>>

SpecNotebook == InitNotebook /\ [][NextNotebook]_vars

(***************************************************************************)
(* SpecShell: the scripts of 'Run stable tutorials' (line 236) and of the  *)
(* tests without torch/sparse (lines 173-178).                             *)
(***************************************************************************)
MaxMajor == 2
MaxMinor == 12
MaxPatch == 1

T_Version == <<"V", "e", "r", "s", "i", "o", "n", ":">>

\* The lines pip show prints for the package (the first three).
PipShow(v) ==
    << <<"N", "a", "m", "e", ":", " ", "qiskit-machine-learning">>,
       T_Version \o <<" ">> \o Decimal(v[1]) \o <<".">> \o Decimal(v[2])
           \o <<".">> \o Decimal(v[3]),
       <<"S", "u", "m", "m", "a", "r", "y", ":", " ", "Qiskit Machine Learning">> >>

\* awk -F.: the fields of a line.
RECURSIVE SplitOn(_, _)
SplitOn(cs, sep) ==
    LET at == {i \in 1..Len(cs) : cs[i] = sep}
    IN IF at = {} THEN <<cs>>
       ELSE LET i == CHOOSE k \in at : \A m \in at : k <= m
            IN <<SubSeq(cs, 1, i - 1)>> \o SplitOn(SubSeq(cs, i + 1, Len(cs)), sep)

\* awk $n: the empty text when the line has fewer fields.
Field(fields, n) == IF n <= Len(fields) THEN fields[n] ELSE <<>>

\* awk substr(s, m): the characters of s from the m-th.
Substr(cs, m) == SubSeq(cs, m, Len(cs))

\* The number a text stands for in awk arithmetic: that of its leading digits.
AwkNumber(cs) ==
    LET n == CHOOSE k \in 0..Len(cs) :
                 /\ \A i \in 1..k : cs[i] \in Digits
                 /\ k < Len(cs) => cs[k + 1] \notin Digits
    IN WholeVal(SubSeq(cs, 1, n))

\* The text awk prints for an integer.
IntText(n) == IF n < 0 THEN <<"-">> \o Decimal(0 - n) ELSE Decimal(n)

\* /^Version:/ { print substr($1,10), $2-1 } with OFS=.
AwkVersionLine(line) ==
    IF StartsWith(line, T_Version)
    THEN <<Substr(Field(SplitOn(line, "."), 1), 10) \o <<".">>
             \o IntText(AwkNumber(Field(SplitOn(line, "."), 2)) - 1)>>
    ELSE <<>>

\* $(... | awk ...): the lines printed, joined by newlines.
RECURSIVE AwkVersion(_)
AwkVersion(lines) ==
    IF lines = <<>> THEN <<>>
    ELSE LET out == AwkVersionLine(Head(lines))
             rest == AwkVersion(Tail(lines))
         IN IF out = <<>> THEN rest
            ELSE IF rest = <<>> THEN out[1]
            ELSE out[1] \o <<"\n">> \o rest

Versions == (0..MaxMajor) \X (0..MaxMinor) \X (0..MaxPatch)

\* version=$(pip show qiskit-machine-learning | awk ...), in a job where the
\* step is executed.
GetVersion ==
    /\ version = ""
    /\ \A a \in NotStable : Atom(a, github, MatrixAt(<<"Tutorials", 1>>))
    /\ version' = Join(AwkVersion(PipShow(installed)))
    /\ UNCHANGED <<installed, env>>

\* contains(array, item) and the text an expression's boolean is replaced by.
Contains(array, item) == item \in array

ExprText(b) == IF b THEN "true" ELSE "false"

RunSlowMutScheduleOnly(gh) == gh.event_name = "schedule"

\* [ "${{ github.event_name }}" == "schedule" ] ||
\* [ "${{ contains(github.event.pull_request.labels.*.name, 'run_slow') }}" == "true" ]
RunSlow(gh) ==
    \/ gh.event_name = "schedule"
    \/ ExprText(Contains(gh.labels, "run_slow")) = "true"

\* The environment of stestr in the tests without torch/sparse: the step's
\* env: and what its script exports.
TestsWithoutTorch ==
    /\ env = {}
    /\ env' = {<<"PYTHONWARNINGS", "default">>}
                 \cup IF RunSlow(github) THEN {<<"QISKIT_TESTS", "run_slow">>} ELSE {}
    /\ UNCHANGED <<installed, version>>

InitShell ==
    /\ github \in RunContexts
    /\ installed \in Versions
    /\ version = ""
    /\ env = {}
    /\ artifacts = NoArtifacts
    /\ RunsIdle /\ RunIdle /\ StepsIdle /\ NbIdle

NextShell ==
    /\ GetVersion \/ TestsWithoutTorch
    /\ UNCHANGED <<github, artifacts, runsVars, runVars, stepsVars, nbVars>>

SpecShell == InitShell /\ [][NextShell]_vars

(***************************************************************************)
(* Properties.                                                             *)
(***************************************************************************)
NineNames ==
    {"ubuntu-latest-3.9", "ubuntu-latest-3.10", "ubuntu-latest-3.11",
     "ubuntu-latest-3.12", "ubuntu-latest-3.13", "macos-latest-3.9",
     "macos-latest-3.13", "windows-latest-3.9", "windows-latest-3.13"}

NinePairs ==
    {<<"ubuntu-latest", "3.9">>, <<"ubuntu-latest", "3.10">>,
     <<"ubuntu-latest", "3.11">>, <<"ubuntu-latest", "3.12">>,
     <<"ubuntu-latest", "3.13">>, <<"macos-latest", "3.9">>,
     <<"macos-latest", "3.13">>, <<"windows-latest", "3.9">>,
     <<"windows-latest", "3.13">>}

Started(j) ==
    \/ jobs[j].status = "in_progress"
    \/ jobs[j].status = "completed" /\ jobs[j].conclusion # "skipped"

MLJobs == {j \in DOMAIN jobs : j[1] = "MachineLearning"}

DownloadNames ==
    {ArtifactName(CoverageSteps[i], MatrixAt(Coverage)) :
        i \in {k \in 1..Len(CoverageSteps) : CoverageSteps[k].uses = "download"}}

\* C1: the aggregation job is started (in progress, or completed other than
\* skipped) only when every job of Checks, MachineLearning and Tutorials,
\* every matrix combination, has completed.
C1_StartsAfterNeeds ==
    Started(Coverage) =>
        \A j \in DOMAIN jobs :
            j[1] \in {"Checks", "MachineLearning", "Tutorials"}
                => jobs[j].status = "completed"

C1_Witness == jobs # <<>> /\ jobs[Coverage].status = "in_progress"

GroupKey(r) ==
    <<r.github.repository, r.github.ref, r.github.head_ref, r.github.workflow>>

\* C2 as stated: an older run whose cancellation a new run of its group
\* has requested ends cancelled.
C2_Original ==
    \A i \in 1..Len(runs) :
        (runs[i].cancelled_by # 0 /\ runs[i].status = "completed")
            => runs[i].conclusion = "cancelled"

\* C2: of the runs of a group (repository, ref, head_ref, workflow) at most
\* one is in progress; an older run of the group of a later run is not
\* pending, and is in progress only with its cancellation requested; a run
\* is cancelled only on request, and only a later run of its own group
\* requests the cancellation of a run.
C2_OnePerGroup ==
    \A i, k \in 1..Len(runs) :
        /\ (i < k /\ GroupKey(runs[i]) = GroupKey(runs[k])) =>
              /\ runs[i].status # "pending"
              /\ runs[i].status = "in_progress" =>
                    runs[i].cancelled_by # 0 /\ runs[k].status # "in_progress"
        /\ runs[i].conclusion = "cancelled" => runs[i].cancelled_by # 0
        /\ runs[i].cancelled_by = k =>
              i < k /\ GroupKey(runs[i]) = GroupKey(runs[k])

\* A run has ended cancelled on the request of a later run, which is in
\* progress beside an older run of another group.
C2_Witness ==
    \E i, k, m \in 1..Len(runs) :
        /\ runs[i].cancelled_by = k
        /\ runs[i].conclusion = "cancelled"
        /\ runs[k].status = "in_progress"
        /\ m < k
        /\ runs[m].status = "in_progress"
        /\ GroupKey(runs[m]) # GroupKey(runs[k])

UploadNames ==
    {ArtifactName(MachineLearningSteps[k], MatrixAt(j)) :
        j \in JobsOf("MachineLearning"),
        k \in {i \in 1..Len(MachineLearningSteps) : MachineLearningSteps[i].uses = "upload"}}

\* C3: the names the aggregation job downloads are the nine names
\* <os>-<python-version>; they are exactly the names under which the
\* MachineLearning jobs of the run upload, and every artifact a
\* MachineLearning job has uploaded has one of them.
C3_DownloadsAreUploads ==
    /\ DownloadNames = NineNames
    /\ \A a \in artifacts : a.by[1] = "MachineLearning" => a.name \in DownloadNames
    /\ UploadNames = DownloadNames

C3_Witness ==
    /\ jobs # <<>>
    /\ \A j \in MLJobs : jobs[j].conclusion = "success"
    /\ Cardinality({a \in artifacts : a.by[1] = "MachineLearning"}) = Cardinality(NineNames)

CheckStepIds ==
    {"pip check", "Copyright Check", "make spell", "Style Check", "Run make html",
     "Run upload documentation", "make doctest"}

Executed(e) == e.result \in {"success", "failure"}

Ran(id) == \E i \in 1..Len(log) : log[i].id = id /\ Executed(log[i])

\* C4: in a Checks job of a run that is not cancelled no check step is
\* skipped, whatever failed before it: when the job is over all seven have
\* been executed, and the job's conclusion is failure if one of them failed.
C4_ChecksContinue ==
    (job[1] = "Checks" /\ ~cancelled) =>
        /\ \A i \in 1..Len(log) : log[i].id \in CheckStepIds => Executed(log[i])
        /\ pc > Len(ChecksSteps) =>
              /\ \A id \in CheckStepIds : Ran(id)
              /\ (\E i \in 1..Len(log) :
                     log[i].id \in CheckStepIds /\ log[i].result = "failure")
                    => Conclusion(log, cancelled) = "failure"

C4_Witness ==
    /\ job # <<>> /\ job[1] = "Checks" /\ ~cancelled
    /\ pc > Len(ChecksSteps)
    /\ \E i \in 1..Len(log) : log[i].id = "pip check" /\ log[i].result = "failure"
    /\ \E i \in 1..Len(log) : log[i].id = "make doctest" /\ log[i].result = "success"

MLPairs ==
    {<<Join(Format(MatrixAt(j).os)), Join(Format(MatrixAt(j).python_version))>> :
        j \in JobsOf("MachineLearning")}

\* C5: the MachineLearning jobs of a run are nine, one for each of the nine
\* (os, python-version) pairs: ubuntu-latest with 3.9 to 3.13, macos-latest
\* and windows-latest with 3.9 and 3.13.
C5_NineJobs ==
    /\ MLJobs = JobsOf("MachineLearning")
    /\ Cardinality(MLJobs) = Cardinality(NinePairs)
    /\ MLPairs = NinePairs

C5_Witness ==
    /\ jobs # <<>>
    /\ \A j \in MLJobs : jobs[j].status = "completed"
    /\ \E j \in MLJobs : Join(Format(MatrixAt(j).os)) = "windows-latest"

MainOrStable(b) == b = T_main \/ StartsWith(b, T_stable_slash)

\* C6: every run was started by a push of branch main or of a branch
\* stable/..., by a pull request into such a branch, or by the schedule at
\* 01:00.
C6_OnlyTriggers ==
    \A i \in 1..Len(runs) :
        LET ev == runs[i].event
        IN \/ ev.name = "push" /\ ev.ref_type = "branch" /\ MainOrStable(ev.branch)
           \/ ev.name = "pull_request" /\ MainOrStable(ev.branch)
           \/ ev.name = "schedule" /\ ev.time = <<1, 0>>

C6_Witness ==
    /\ \E i \in 1..Len(runs) : runs[i].event.name = "push"
                               /\ runs[i].event.branch = T_stable_1
    /\ \E i \in 1..Len(runs) : runs[i].event.name = "pull_request"
    /\ \E i \in 1..Len(runs) : runs[i].event.name = "schedule"

Combined == "Combined Deprecation Messages"

\* C7 as stated: when Combined Deprecation Messages has been executed it
\* has succeeded, and when the job is over Coverage combine and Upload to
\* Coveralls have been executed.
C7_Original ==
    (job = Coverage /\ Ran(Combined)) =>
        /\ \A i \in 1..Len(log) : log[i].id = Combined => log[i].result = "success"
        /\ pc > Len(CoverageSteps) => Ran("Coverage combine") /\ Ran("Upload to Coveralls")

\* C7: when Combined Deprecation Messages has been executed it has
\* succeeded, whatever the exit status of the sort; in a run that is not
\* cancelled the next step, Coverage combine, is then executed, and Upload
\* to Coveralls is executed exactly when Coverage combine has succeeded.
C7_NonFatal ==
    job = Coverage =>
        \A i \in 1..Len(log) :
            (log[i].id = Combined /\ Executed(log[i])) =>
                /\ log[i].result = "success"
                /\ (~cancelled /\ Len(log) > i) =>
                      /\ log[i + 1].id = "Coverage combine"
                      /\ Executed(log[i + 1])
                /\ (~cancelled /\ Len(log) > i + 1) =>
                      /\ log[i + 2].id = "Upload to Coveralls"
                      /\ Executed(log[i + 2]) <=> log[i + 1].result = "success"

C7_Witness ==
    /\ job = Coverage
    /\ \E i \in 1..Len(log) : log[i].id = Combined /\ log[i].exit = "error"
    /\ Ran("Coverage combine") /\ Ran("Upload to Coveralls")

Count(m) == Cardinality({i \in 1..Len(calls) : calls[i] = m})

\* C8: the classifier is constructed at most once and fit is called at most
\* once, after the construction; every call of score or predict comes after
\* fit has returned; and when the notebook has been executed to its end the
\* classifier has been constructed once, fitted once, scored and used to
\* predict.
C8_EstimatorOrder ==
    /\ Count("construct") <= 1
    /\ Count("fit") <= 1
    /\ \A i \in 1..Len(calls) :
          /\ calls[i] = "fit" => \E k \in 1..(i - 1) : calls[k] = "construct"
          /\ calls[i] \in {"score", "predict"}
                => \E k \in 1..(i - 1) : calls[k] = "fit_return"
    /\ (NbDone /\ ~nbHalted) =>
          /\ Count("construct") = 1 /\ Count("fit") = 1
          /\ Count("score") >= 1 /\ Count("predict") >= 1

C8_Witness ==
    /\ NbDone /\ ~nbHalted
    /\ calls = <<"construct", "fit", "fit_return", "score", "predict">>

\* C9: fit never performs more than tau steps, and it returns only when it
\* has performed tau steps, whatever the steps found in the data.
C9_AllSteps ==
    /\ clf.step <= tau
    /\ clf.state = "fitted" => clf.step = tau

C9_Witness ==
    /\ clf.state = "fitted"
    /\ clf.step = tau
    /\ clf.updates > 0 /\ clf.updates < tau

\* C10: when the aggregation job is started, every artifact it downloads
\* exists and holds ml.dep; and no download step it has executed has failed
\* for want of its artifact.
C10_DownloadsExist ==
    Started(Coverage) =>
        /\ \A n \in DownloadNames :
              n \in Names(artifacts) /\ "ml.dep" \in FilesOf(artifacts, n)
        /\ \A i \in 1..Len(covLog) :
              covLog[i].result = "failure" =>
                  \A k \in 1..Len(CoverageSteps) :
                      (CoverageSteps[k].id = covLog[i].id /\ CoverageSteps[k].uses = "download")
                          => ArtifactName(CoverageSteps[k], MatrixAt(Coverage)) \in Names(artifacts)

C10_Witness ==
    /\ jobs # <<>>
    /\ jobs[Coverage].status = "completed"
    /\ Cardinality({i \in 1..Len(covLog) :
                       covLog[i].result = "success"
                       /\ \E k \in 1..Len(CoverageSteps) :
                             CoverageSteps[k].id = covLog[i].id
                             /\ CoverageSteps[k].uses = "download"})
          = Cardinality(NineNames)

MLGateSteps == {"make lint", "make mypy", "Machine Learning Unit Tests"}

MLPlainSteps == {"Deprecation Messages", "Coverage combine", "upload-artifact"}

MLNotCancelledSteps ==
    {"make mypy", "Machine Learning Unit Tests",
     "Machine Learning Unit Tests without torch/sparse"}

\* C11: in a MachineLearning job of a run that is not cancelled, once make
\* lint, make mypy or the unit tests have failed, Deprecation Messages,
\* Coverage combine and upload-artifact are skipped and the job uploads no
\* artifact, while every later step marked !cancelled() is executed; when
\* the job is over its conclusion is failure.
C11_SkipAfterFailure ==
    (job[1] = "MachineLearning" /\ ~cancelled) =>
        \A i \in 1..Len(log) :
            (log[i].id \in MLGateSteps /\ log[i].result = "failure") =>
                /\ \A k \in (i + 1)..Len(log) :
                      /\ log[k].id \in MLPlainSteps => log[k].result = "skipped"
                      /\ log[k].id \in MLNotCancelledSteps => Executed(log[k])
                /\ artifacts = NoArtifacts
                /\ pc > Len(MachineLearningSteps) =>
                      /\ \A id \in MLPlainSteps :
                            \E k \in 1..Len(log) : log[k].id = id /\ log[k].result = "skipped"
                      /\ \A id \in MLNotCancelledSteps : Ran(id)
                      /\ Conclusion(log, cancelled) = "failure"

C11_Witness ==
    /\ job # <<>> /\ job[1] = "MachineLearning" /\ ~cancelled
    /\ pc > Len(MachineLearningSteps)
    /\ \E i \in 1..Len(log) : log[i].id = "make lint" /\ log[i].result = "failure"
    /\ \E i \in 1..Len(log) :
          /\ log[i].id = "Machine Learning Unit Tests without torch/sparse"
          /\ log[i].result = "success"
    /\ artifacts = NoArtifacts

U39 == "ubuntu-latest-3.9"

CombineReads ==
    UNION {CoverageSteps[k].reads :
              k \in {i \in 1..Len(CoverageSteps) : CoverageSteps[i].id = "Coverage combine"}}

U39Dirs ==
    {CoverageSteps[k].path.dir :
        k \in {i \in 1..Len(CoverageSteps) :
                  /\ CoverageSteps[i].uses = "download"
                  /\ ArtifactName(CoverageSteps[i], MatrixAt(Coverage)) = U39}}

\* C12: an artifact that holds ml.dat is the artifact ubuntu-latest-3.9 of
\* the MachineLearning job with os ubuntu-latest and python-version 3.9; the
\* aggregation job's Coverage combine reads ml.dat from the directory where
\* that artifact is downloaded and from nowhere else; and when the
\* aggregation job is started the artifact exists and holds ml.dat.
C12_OneCoverageFile ==
    /\ \A a \in artifacts :
          "ml.dat" \in a.files =>
              /\ a.name = U39
              /\ a.by[1] = "MachineLearning"
              /\ Join(Format(MatrixAt(a.by).os)) = "ubuntu-latest"
              /\ Join(Format(MatrixAt(a.by).python_version)) = "3.9"
    /\ CombineReads = {File(d, "ml.dat") : d \in U39Dirs}
    /\ Cardinality(CombineReads) = 1
    /\ Started(Coverage) => "ml.dat" \in FilesOf(artifacts, U39)

C12_Witness ==
    /\ jobs # <<>>
    /\ jobs[Coverage].status = "completed"
    /\ \E i \in 1..Len(covLog) :
          covLog[i].id = "Coverage combine" /\ covLog[i].result = "success"
    /\ "ml.dat" \in FilesOf(artifacts, U39)
    /\ "macos-latest-3.9" \in Names(artifacts)
    /\ "ml.dat" \notin FilesOf(artifacts, "macos-latest-3.9")

MatrixJobs == JobsOf("MachineLearning") \cup JobsOf("Tutorials")

\* C13: a job of the MachineLearning or Tutorials matrix is never skipped,
\* and never cancelled by the failure of another job: one of them is
\* cancelled only in a cancelled run.  While one of them is not completed
\* the jobs of the run are able to go on, and while one of them has failed
\* the aggregation job is not started.
C13_IndependentFailure ==
    /\ \A j \in MatrixJobs :
          /\ jobs[j].conclusion # "skipped"
          /\ jobs[j].conclusion = "cancelled" => cancelled
    /\ (\E j \in MatrixJobs : jobs[j].status # "completed") => ENABLED JobStep
    /\ (\E j \in MatrixJobs : jobs[j].conclusion = "failure") => ~Started(Coverage)

C13_Witness ==
    /\ jobs # <<>>
    /\ \A j \in Jobs : jobs[j].conclusion # "cancelled"
    /\ \A j \in MatrixJobs : jobs[j].status = "completed"
    /\ \E j, k \in JobsOf("MachineLearning") :
          jobs[j].conclusion = "failure" /\ jobs[k].conclusion = "success"
    /\ \A j \in JobsOf("Tutorials") : jobs[j].conclusion = "success"
    /\ jobs[Coverage] = JobState("completed", "skipped")

\* C14 as stated: the version is the major and the minor number of the
\* installed version.
C14_Original ==
    version # "" =>
        version = Join(Decimal(installed[1]) \o <<".">> \o Decimal(installed[2]))

\* C14, what the script computes instead: the major number of the installed
\* version and its minor number less one, which is <major>.-1 when the minor
\* number is 0.
C14_PreviousMinor ==
    version # "" =>
        /\ version = Join(Decimal(installed[1]) \o <<".">> \o IntText(installed[2] - 1))
        /\ installed[2] = 0 => version = Join(Decimal(installed[1]) \o <<".", "-", "1">>)
        /\ installed[2] > 0 =>
              version = Join(Decimal(installed[1]) \o <<".">> \o Decimal(installed[2] - 1))

C14_Witness == installed = <<1, 0, 0>> /\ version = "1.-1"

\* C15: the tests without torch/sparse run with QISKIT_TESTS=run_slow exactly
\* on a schedule event and on a pull request labelled run_slow, and with no
\* QISKIT_TESTS on a push and on a pull request without the label.
C15_RunSlow ==
    env # {} =>
        /\ <<"QISKIT_TESTS", "run_slow">> \in env <=>
              \/ github.event_name = "schedule"
              \/ github.event_name = "pull_request" /\ "run_slow" \in github.labels
        /\ \/ github.event_name = "push"
           \/ github.event_name = "pull_request" /\ "run_slow" \notin github.labels
           => \A e \in env : e[1] # "QISKIT_TESTS"

C15_Witness ==
    /\ github.event_name = "pull_request"
    /\ "run_slow" \in github.labels
    /\ <<"QISKIT_TESTS", "run_slow">> \in env

StableSteps == {"Run stable tutorials", "Run upload stable tutorials"}

StableNames == {"tutorials-stable3.9", "tutorials-stable3.13"}

\* python-version is 3.9, the ref is no branch stable... and the base ref of
\* the pull request no branch stable/...
StableIf ==
    /\ Join(Format(MatrixAt(job).python_version)) = "3.9"
    /\ ~StartsWith(github.ref, T_refs_heads_stable)
    /\ ~StartsWith(github.base_ref, T_stable_slash)

StableBuilt ==
    \E i \in 1..Len(log) : log[i].id = "Run stable tutorials" /\ log[i].result = "success"

\* C16: in a Tutorials job the stable upload is executed only after Run stable
\* tutorials has been executed and has succeeded; either step is executed
\* only with python-version 3.9 outside the stable branches, and is skipped
\* there only after a failure or a cancellation; an artifact of the stable
\* tutorials exists only after the stable build has succeeded, never with
\* python 3.13 and never on a stable branch.
C16_StableUpload ==
    job[1] = "Tutorials" =>
        /\ Ran("Run upload stable tutorials") => StableBuilt
        /\ \A i \in 1..Len(log) :
              log[i].id \in StableSteps =>
                  /\ Executed(log[i]) => StableIf
                  /\ log[i].result = "skipped" =>
                        \/ ~StableIf
                        \/ cancelled
                        \/ \E k \in 1..(i - 1) : log[k].result = "failure"
        /\ \A a \in artifacts :
              a.name \in StableNames =>
                  StableIf /\ StableBuilt /\ a.name = "tutorials-stable3.9"
        /\ (~StableIf /\ pc > Len(TutorialsSteps)) =>
              \A id \in StableSteps :
                  \E i \in 1..Len(log) : log[i].id = id /\ log[i].result = "skipped"

C16_Witness ==
    /\ job # <<>> /\ job[1] = "Tutorials"
    /\ StableIf /\ StableBuilt
    /\ Ran("Run upload stable tutorials")
    /\ {"tutorials3.9", "tutorials-stable3.9"} \subseteq Names(artifacts)

\* The upload steps of a run: the job and the position of the step.
Uploads ==
    {u \in Jobs \X (1..20) :
        /\ u[2] <= Len(StepsOf(u[1][1]))
        /\ StepsOf(u[1][1])[u[2]].uses = "upload"}

UploadName(u) == ArtifactName(StepsOf(u[1][1])[u[2]], MatrixAt(u[1]))

TutorialsNames ==
    {"tutorials3.9", "tutorials3.13", "tutorials-stable3.9", "tutorials-stable3.13"}

AllUploadNames == {UploadName(u) : u \in Uploads}

DistinctUploadNames ==
    /\ \A u \in Uploads : \A v \in Uploads : UploadName(u) = UploadName(v) => u = v
    /\ AllUploadNames = {"documentation"} \cup NineNames \cup TutorialsNames
    /\ Cardinality(AllUploadNames) = 1 + 9 + 2 + 2

\* C17: the upload steps of a run have pairwise distinct artifact names:
\* documentation, the nine <os>-<python-version>, tutorials<python-version>
\* and tutorials-stable<python-version>; so the artifacts of a run are as
\* many as their names, each uploaded by the one job that has the step.
C17_DistinctNames ==
    /\ DistinctUploadNames
    /\ Cardinality(Names(artifacts)) = Cardinality(artifacts)
    /\ Names(artifacts) \subseteq AllUploadNames

C17_Witness ==
    /\ \A j \in UpstreamJobs : jobs[j].status = "completed" /\ jobs[j].conclusion = "success"
    /\ Names(artifacts) = AllUploadNames \ {"tutorials-stable3.13"}
    /\ Cardinality(artifacts) = 13

====
